---- MODULE Spec2Model ----
(***************************************************************************)
(* Model of cpu_monte_carlo_pi.py: a Monte Carlo estimate of Pi spread     *)
(* over MPI ranks, each rank fanning its share out to a local pool, with   *)
(* an optional per-node metrics logger started by the node leader.         *)
(*                                                                         *)
(* Ranks share no memory.  They interact through the collectives of        *)
(* COMM_WORLD only (Barrier, allgather, gather), which MPI matches by the  *)
(* order in which each rank calls them.  A rank's local code between two   *)
(* collectives is one or a few atomic steps.                               *)
(***************************************************************************)
EXTENDS Integers, Sequences, FiniteSets, TLC

\* ---- bounds of the model ------------------------------------------------
MaxRanks == 2
MaxTotal == 3
MaxBatch == 2
\* bounds of the pure-function specification PartSpec
PMaxRanks == 4
PMaxTotal == 12
PMaxBatch == 4

Hosts == {"nodeA", "nodeB"}
\* what SLURM_CPUS_PER_TASK or cpu_count() may give (line 171)
CpuCounts == {0, 1, 2}
None == "None"
\* --job-output-dir: the empty string, or the name of a directory
JobOutputDirs == {"", "job_out"}
\* a slot of a collective's buffer that no rank has filled yet
NoPair == << >>

VARIABLES
    size,                         \* comm.Get_size()
    total_samples,                \* args.total_samples
    mp_batch_size,                \* args.mp_batch_size
    enable_multi_node_logging,    \* args.enable_multi_node_logging
    job_output_dir,               \* args.job_output_dir
    hostname,                     \* MPI.Get_processor_name() of each rank
    pc,                           \* where each rank is in main()
    calls,                        \* the collectives each rank has called, in order
    allgather_buf,                \* what each rank published in comm.allgather
    gather_buf,                   \* what each rank sent in comm.gather
    dir_created,                  \* os.makedirs(job_output_dir) has run
    is_node_leader,
    logger_process_object,        \* the global of each rank's process
    atexit_registered,            \* atexit.register(cleanup_logger_process) ran
    launch_attempted,             \* the rank reached the try block of the launch
    num_local_workers,
    my_samples,
    batches_for_pool,
    results_from_pool,            \* per batch: the kernel's result, or -1 while outstanding
    pool_used,                    \* Pool(processes=...) was created by this rank
    pool_failed,                  \* the except branch of the pool was taken
    serial_calls,                 \* sizes passed to monte_carlo_pi_batch on the calling thread
    serial_hits,                  \* what the last such call returned, or -1
    rank_local_points_in_circle,
    report,                       \* what rank 0 printed under "--- Results ---"
    exit_pc,                      \* where each rank's process is in its exit and its atexit hook
    agent,                        \* the logger process each rank launched
    signals,                      \* the os.killpg calls of each rank: << signal, target, delivered >>
    waits,                        \* the Popen.wait calls of each rank: << timeout, result >>
    hook_calls,                   \* how often cleanup_logger_process was entered
    clears                        \* how often it cleared a handle that was set

vars == << size, total_samples, mp_batch_size, enable_multi_node_logging,
           job_output_dir, hostname,
           pc, calls, allgather_buf, gather_buf, dir_created, is_node_leader,
           logger_process_object, atexit_registered, launch_attempted,
           num_local_workers, my_samples, batches_for_pool, results_from_pool,
           pool_used, pool_failed, serial_calls, serial_hits,
           rank_local_points_in_circle, report,
           exit_pc, agent, signals, waits, hook_calls, clears >>

exitVars == << exit_pc, agent, signals, waits, hook_calls, clears >>
inputs == << size, total_samples, mp_batch_size, enable_multi_node_logging,
             job_output_dir, hostname >>
loggerVars == << dir_created, is_node_leader, logger_process_object,
                 atexit_registered, launch_attempted, allgather_buf >>
workVars == << num_local_workers, my_samples, batches_for_pool, results_from_pool,
               pool_used, pool_failed, serial_calls, serial_hits,
               rank_local_points_in_circle >>

Ranks == 0 .. (size - 1)

\* ---- helpers --------------------------------------------------------------
RECURSIVE SumSeq(_)
SumSeq(s) == IF s = << >> THEN 0 ELSE Head(s) + SumSeq(Tail(s))

Repeat(x, n) == [i \in 1 .. n |-> x]

\* ---- pure functions of main() ---------------------------------------------

\* lines 191-198: the share of rank `rank`
MySamplesExtraUpTo(rank, total, sz) ==
    IF rank <= total % sz THEN (total \div sz) + 1 ELSE total \div sz
MySamplesExtraToLast(rank, total, sz) ==
    IF rank >= sz - (total % sz) THEN (total \div sz) + 1 ELSE total \div sz
MySamplesAtLeastOne(rank, total, sz) ==
    IF total \div sz = 0 THEN 1
    ELSE IF rank < total % sz THEN (total \div sz) + 1 ELSE total \div sz
MySamples(rank, total, sz) ==
    LET samples_per_rank == total \div sz
        remainder_samples == total % sz
    IN  IF rank < remainder_samples THEN samples_per_rank + 1 ELSE samples_per_rank

\* lines 220-225: the batch sizes handed to pool.map
BatchesForPoolNoRemainder(n, batch) == Repeat(batch, n \div batch)
BatchesForPool(n, batch) ==
    LET num_full_batches == n \div batch
        remaining_for_last_batch == n % batch
        full == Repeat(batch, num_full_batches)
    IN  IF remaining_for_last_batch > 0
        THEN Append(full, remaining_for_last_batch)
        ELSE full

\* lines 237 and 240: the serial path is one kernel call on the whole share
SerialBatchesAsPool(n, batch) == BatchesForPool(n, batch)
SerialBatches(n, batch) == << n >>

\* lines 115-132: monte_carlo_pi_batch(n) counts the points among n random
\* ones that fall in the quarter circle: any number from 0 to n
KernelOutcomes(n) == 0 .. n

\* lines 171-173
NumLocalWorkers(cpus) == IF cpus <= 0 THEN 1 ELSE cpus

\* line 214
UsePoolEitherCondition(workers, n, batch) == workers > 1 \/ n > batch
UsePool(workers, n, batch) == workers > 1 /\ n > batch

\* lines 41-46: the loop over the allgathered (rank, hostname) pairs
RECURSIVE MinRankOnMyNode(_, _, _, _)
MinRankOnMyNode(pairs, i, my_hostname, min_rank) ==
    IF i > Len(pairs) THEN min_rank
    ELSE MinRankOnMyNode(pairs, i + 1, my_hostname,
            IF pairs[i][2] = my_hostname /\ pairs[i][1] < min_rank
            THEN pairs[i][1] ELSE min_rank)

IsNodeLeaderAlways(rank, my_hostname, pairs) == TRUE
IsNodeLeaderIgnoringHost(rank, my_hostname, pairs) ==
    rank = MinRankOnMyNode(pairs, 1, pairs[1][2], rank)
IsNodeLeader(rank, my_hostname, pairs) ==
    rank = MinRankOnMyNode(pairs, 1, my_hostname, rank)

\* lines 254-262: rank 0 sums the gathered pairs; the estimate 4.0 * hits / samples
\* is kept as the fraction << numerator, denominator >>, 0 as << 0, 1 >>; a
\* denominator of 0 is the division by zero
RECURSIVE SumField(_, _)
SumField(pairs, f) ==
    IF pairs = << >> THEN 0 ELSE Head(pairs)[f] + SumField(Tail(pairs), f)

EstimatedPi(points, samples) ==
    IF samples > 0 THEN << 4 * points, samples >> ELSE << 0, 1 >>

AggregateSkippingRoot(all_rank_results) ==
    LET rest == Tail(all_rank_results)
    IN  [kind |-> "results", estimate_printed |-> TRUE, lines_printed |-> 6,
         total_points_in_circle_overall |-> SumField(rest, 1),
         total_samples_overall |-> SumField(rest, 2),
         estimated_pi |-> EstimatedPi(SumField(rest, 1), SumField(rest, 2))]
Aggregate(all_rank_results) ==
    LET total_points_in_circle_overall == SumField(all_rank_results, 1)
        total_samples_overall == SumField(all_rank_results, 2)
    IN  [kind |-> "results", estimate_printed |-> TRUE, lines_printed |-> 6,
         total_points_in_circle_overall |-> total_points_in_circle_overall,
         total_samples_overall |-> total_samples_overall,
         estimated_pi |-> EstimatedPi(total_points_in_circle_overall,
                                      total_samples_overall)]

NoReport == [kind |-> "none", estimate_printed |-> FALSE, lines_printed |-> 0,
             total_points_in_circle_overall |-> 0,
             total_samples_overall |-> 0, estimated_pi |-> << 0, 1 >>]
\* lines 206-208: "No samples processed by any rank.": no totals, no estimate
NoSamplesReport == [kind |-> "no_samples", estimate_printed |-> FALSE,
                    lines_printed |-> 2,
                    total_points_in_circle_overall |-> 0,
                    total_samples_overall |-> 0, estimated_pi |-> << 0, 1 >>]

\* lines 204 and 250: the pair a rank sends to the root
RankResultsSwapped(points, samples) == << samples, points >>
RankResults(points, samples) ==
    IF samples = 0 THEN << 0, 0 >> ELSE << points, samples >>

\* line 237: the fallback assigns the serial count, it does not add to it
FallbackPoints(old_points, serial_points) == serial_points

\* ---- the collectives of COMM_WORLD ------------------------------------------
\* Rank r calls its next collective.
Call(r, kind) == calls' = [calls EXCEPT ![r] = Append(@, kind)]

\* The collective rank r is blocked in completes once every rank has made its
\* call of the same position, and it is the same collective everywhere.
Complete(r) ==
    LET k == Len(calls[r])
    IN  \A q \in Ranks : Len(calls[q]) >= k /\ calls[q][k] = calls[r][k]

\* ---- initial states ---------------------------------------------------------
InitRanks ==
    /\ pc = [r \in Ranks |-> "start"]
    /\ calls = [r \in Ranks |-> << >>]
    /\ allgather_buf = [r \in Ranks |-> NoPair]
    /\ gather_buf = [r \in Ranks |-> NoPair]
    /\ dir_created = FALSE
    /\ is_node_leader = [r \in Ranks |-> FALSE]
    /\ logger_process_object = [r \in Ranks |-> None]
    /\ atexit_registered = [r \in Ranks |-> FALSE]
    /\ launch_attempted = [r \in Ranks |-> FALSE]
    /\ num_local_workers = [r \in Ranks |-> 0]
    /\ my_samples = [r \in Ranks |-> 0]
    /\ batches_for_pool = [r \in Ranks |-> << >>]
    /\ results_from_pool = [r \in Ranks |-> << >>]
    /\ pool_used = [r \in Ranks |-> FALSE]
    /\ pool_failed = [r \in Ranks |-> FALSE]
    /\ serial_calls = [r \in Ranks |-> << >>]
    /\ serial_hits = [r \in Ranks |-> -1]
    /\ rank_local_points_in_circle = [r \in Ranks |-> 0]
    /\ report = NoReport
    /\ exit_pc = [r \in Ranks |-> "running"]
    /\ agent = [r \in Ranks |-> "none"]
    /\ signals = [r \in Ranks |-> << >>]
    /\ waits = [r \in Ranks |-> << >>]
    /\ hook_calls = [r \in Ranks |-> 0]
    /\ clears = [r \in Ranks |-> 0]

\* A host's name is a label: rank 0's host is the one called nodeA, and every
\* other rank is on that host or on the other one.
Init ==
    /\ size \in 1 .. MaxRanks
    /\ total_samples \in 0 .. MaxTotal
    /\ mp_batch_size \in 1 .. MaxBatch
    /\ enable_multi_node_logging \in BOOLEAN
    /\ job_output_dir \in JobOutputDirs
    /\ hostname \in {h \in [Ranks -> Hosts] : h[0] = "nodeA"}
    /\ InitRanks

\* ---- main(), rank by rank ---------------------------------------------------

\* Where an exception that no handler of main catches can arise: os.makedirs
\* and the print after it (lines 156-157); os.path.abspath in the arguments
\* of the launch (line 163); os.path.abspath and the prints of the launch
\* (lines 58, 68-69 and 85); int() and rank 0's banner (lines 171-188); the print of a
\* rank with no samples (line 201); the print of the pool's handler (line
\* 235); the print after the work (line 244); the prints of the root's report
\* (lines 207-208 and 264-269).
Raised ==
    {"raised_in_startup", "raised_before_launch", "raised_in_launch",
     "raised_in_setup", "raised_in_zero",
     "raised_in_fallback", "raised_after_work", "raised_in_report"}

\* Such an exception leaves main on that rank: the rank makes no further step
\* of main, and the interpreter exits (line 273).
LeaveMain(r, where) == pc' = [pc EXCEPT ![r] = where]

\* main of rank r is over, by its return or by an exception
MainLeft(r) == pc[r] \in {"returned"} \cup Raised

\* print(..., flush=True) writes its line, or raises OSError when stdout is
\* closed or its pipe broken
PrintOutcomes == {"written", "raised"}

\* line 155: the guard of os.makedirs; an empty --job-output-dir is falsy
MakedirsDue == enable_multi_node_logging /\ job_output_dir # ""

\* lines 156-158: what rank 0 meets when the directory is due: os.makedirs
\* raises (the name is taken by a file, the parent is read-only), or the
\* directory is there and the print of line 157 raises, or the rank goes on to
\* the barrier.  Nothing catches these exceptions.
StartupOutcomes(r) ==
    IF r = 0 /\ MakedirsDue
    THEN {"makedirs_raises", "print_raises", "barrier"}
    ELSE {"barrier"}

\* a mutant of Startup: no rank creates the output directory
StartupSkipsMakedirs(r) ==
    /\ pc[r] = "start"
    /\ dir_created' = dir_created
    /\ Call(r, "Barrier")
    /\ pc' = [pc EXCEPT ![r] = "Barrier1"]
    /\ UNCHANGED << inputs, exitVars, allgather_buf, gather_buf, is_node_leader,
                    logger_process_object, atexit_registered, launch_attempted,
                    workVars, report >>
\* lines 154-158: rank 0 creates the output directory when logging is enabled
\* and a directory is named; every rank enters the first barrier, unless an
\* exception has taken it out of main
Startup(r) ==
    /\ pc[r] = "start"
    /\ \E outcome \in StartupOutcomes(r) :
         /\ dir_created' =
              (dir_created \/ (r = 0 /\ MakedirsDue /\ outcome # "makedirs_raises"))
         /\ IF outcome = "barrier"
            THEN /\ Call(r, "Barrier")
                 /\ pc' = [pc EXCEPT ![r] = "Barrier1"]
            ELSE /\ LeaveMain(r, "raised_in_startup")
                 /\ UNCHANGED calls
    /\ UNCHANGED << inputs, exitVars, allgather_buf, gather_buf, is_node_leader,
                    logger_process_object, atexit_registered, launch_attempted,
                    workVars, report >>

\* line 163: os.path.abspath(args.job_output_dir), evaluated for the call of
\* start_node_logger_if_leader; it raises FileNotFoundError when the path is
\* relative and the working directory is gone
AbspathOutcomes == {"absolute_path", "raises"}

\* lines 158-169 and 39: past the first barrier a rank with logging enabled
\* evaluates the arguments of start_node_logger_if_leader (line 163) and calls
\* allgather inside it, or is taken out of main by the exception of line 163;
\* with logging disabled it calls the second barrier
AfterBarrier1(r) ==
    /\ pc[r] = "Barrier1"
    /\ Complete(r)
    /\ IF enable_multi_node_logging
       THEN \E abspath \in AbspathOutcomes :
               IF abspath = "raises"
               THEN /\ LeaveMain(r, "raised_before_launch")
                    /\ UNCHANGED << calls, allgather_buf >>
               ELSE /\ allgather_buf' = [allgather_buf EXCEPT ![r] = << r, hostname[r] >>]
                    /\ Call(r, "allgather")
                    /\ pc' = [pc EXCEPT ![r] = "allgather"]
       ELSE /\ Call(r, "Barrier")
            /\ pc' = [pc EXCEPT ![r] = "Barrier2"]
            /\ UNCHANGED allgather_buf
    /\ UNCHANGED << inputs, exitVars, gather_buf, dir_created, is_node_leader,
                    logger_process_object, atexit_registered, launch_attempted,
                    workVars, report >>

\* what allgather returns: the pairs of all ranks, in rank order
AllNodeRanksHostnames == [i \in 1 .. size |-> allgather_buf[i - 1]]

\* lines 58-86: the ways through the launch: os.path.abspath (line 58) or a
\* print of lines 68-69, before the try block, raises; open or Popen raises (lines 72-77); Popen returns
\* and the print of line 79 raises; or the block runs to its end.  The except
\* branch of lines 84-86 takes the second and the third alike.
LaunchOutcomes ==
    {"announce_raises", "raised_before_popen", "raised_after_popen", "registered"}

\* lines 84-86: an exception of the try block is caught
Caught(outcome) == outcome \in {"raised_before_popen", "raised_after_popen"}

\* lines 58, 68-69 and 85: the function is left by an exception, and main with
\* it: by a statement before the try block, or by the print of the handler
\* (line 85)
LaunchLeavesMain(outcome, handler_print) ==
    \/ outcome = "announce_raises"
    \/ Caught(outcome) /\ handler_print = "raised"

\* lines 77 and 86: the handle after the launch.  Popen's result is assigned at
\* line 77; line 86 sets None, and is reached only when the print of line 85
\* has written its line
LaunchHandle(outcome, handler_print) ==
    IF outcome = "registered" THEN "Popen"
    ELSE IF outcome = "raised_after_popen" /\ handler_print = "raised" THEN "Popen"
    ELSE None

\* lines 82 and 84-86: the hook is registered at the end of the try block only
HookRegistered(outcome) == outcome = "registered"

\* line 77: the logger process exists once Popen has returned, whatever
\* happens to its handle afterwards
AgentAfterLaunch(outcome) ==
    IF outcome \in {"raised_after_popen", "registered"} THEN "running" ELSE "none"

\* lines 39-86 and 169: the election, the launch on the leader, then the barrier
StartNodeLoggerIfLeader(r) ==
    /\ pc[r] = "allgather"
    /\ Complete(r)
    /\ LET leader == IsNodeLeader(r, hostname[r], AllNodeRanksHostnames)
       IN  /\ is_node_leader' = [is_node_leader EXCEPT ![r] = leader]
           /\ IF leader
              THEN \E outcome \in LaunchOutcomes, handler_print \in PrintOutcomes :
                     /\ logger_process_object' =
                          [logger_process_object EXCEPT
                             ![r] = LaunchHandle(outcome, handler_print)]
                     /\ atexit_registered' =
                          [atexit_registered EXCEPT ![r] = HookRegistered(outcome)]
                     /\ launch_attempted' =
                          [launch_attempted EXCEPT ![r] = outcome # "announce_raises"]
                     /\ agent' = [agent EXCEPT ![r] = AgentAfterLaunch(outcome)]
                     /\ IF LaunchLeavesMain(outcome, handler_print)
                        THEN /\ LeaveMain(r, "raised_in_launch")
                             /\ UNCHANGED calls
                        ELSE /\ Call(r, "Barrier")
                             /\ pc' = [pc EXCEPT ![r] = "Barrier2"]
              ELSE /\ UNCHANGED << logger_process_object, atexit_registered,
                                   launch_attempted, agent >>
                   /\ Call(r, "Barrier")
                   /\ pc' = [pc EXCEPT ![r] = "Barrier2"]
    /\ UNCHANGED << inputs, allgather_buf, gather_buf, dir_created, workVars, report,
                    exit_pc, signals, waits, hook_calls, clears >>

\* a mutant of Partition: the rank does not wait in the second barrier
PartitionWithoutBarrier(r) ==
    /\ pc[r] = "Barrier2"
    /\ \E cpus \in CpuCounts :
         LET workers == NumLocalWorkers(cpus)
             mine == MySamples(r, total_samples, size)
         IN  /\ num_local_workers' = [num_local_workers EXCEPT ![r] = workers]
             /\ my_samples' = [my_samples EXCEPT ![r] = mine]
             /\ pc' = [pc EXCEPT ![r] =
                         IF mine = 0 THEN "zero"
                         ELSE IF UsePool(workers, mine, mp_batch_size) THEN "pool"
                         ELSE "serial"]
    /\ UNCHANGED << inputs, exitVars, calls, gather_buf, loggerVars, batches_for_pool,
                    results_from_pool, pool_used, pool_failed, serial_calls,
                    serial_hits, rank_local_points_in_circle, report >>
\* lines 169-214: past the second barrier: the worker count, the share, and the
\* branch taken.  int() raises ValueError when SLURM_CPUS_PER_TASK is not a
\* number (line 171), and a print of rank 0's banner (lines 176-188) can raise:
\* either takes the rank out of main.
Partition(r) ==
    /\ pc[r] = "Barrier2"
    /\ Complete(r)
    /\ \/ /\ LeaveMain(r, "raised_in_setup")
          /\ UNCHANGED << num_local_workers, my_samples >>
       \/ \E cpus \in CpuCounts :
            LET workers == NumLocalWorkers(cpus)
                mine == MySamples(r, total_samples, size)
            IN  /\ num_local_workers' = [num_local_workers EXCEPT ![r] = workers]
                /\ \/ /\ r = 0
                      /\ LeaveMain(r, "raised_in_setup")
                      /\ UNCHANGED my_samples
                   \/ /\ my_samples' = [my_samples EXCEPT ![r] = mine]
                      /\ pc' = [pc EXCEPT ![r] =
                                  IF mine = 0 THEN "zero"
                                  ELSE IF UsePool(workers, mine, mp_batch_size)
                                       THEN "pool"
                                  ELSE "serial"]
    /\ UNCHANGED << inputs, exitVars, calls, gather_buf, loggerVars, batches_for_pool,
                    results_from_pool, pool_used, pool_failed, serial_calls,
                    serial_hits, rank_local_points_in_circle, report >>

\* lines 201-202 and 244-247: after the print that precedes it the rank enters
\* the third barrier; when that print raises the rank is out of main
EnterBarrier3(r, said, where) ==
    IF said = "written"
    THEN /\ Call(r, "Barrier")
         /\ pc' = [pc EXCEPT ![r] = "Barrier3"]
    ELSE /\ LeaveMain(r, where)
         /\ UNCHANGED calls

\* a mutant of ZeroSamples: the early return without the barrier of line 202
ZeroSamplesWithoutBarrier(r) ==
    /\ pc[r] = "zero"
    /\ gather_buf' = [gather_buf EXCEPT ![r] = << 0, 0 >>]
    /\ Call(r, "gather")
    /\ pc' = [pc EXCEPT ![r] = "gather"]
    /\ UNCHANGED << inputs, exitVars, loggerVars, workVars, report >>
\* lines 200-202: a rank with no samples enters the barrier before the gather,
\* unless the print of line 201 raises
ZeroSamples(r) ==
    /\ pc[r] = "zero"
    /\ \E said \in PrintOutcomes : EnterBarrier3(r, said, "raised_in_zero")
    /\ UNCHANGED << inputs, exitVars, gather_buf, loggerVars, workVars, report >>

\* lines 216-229: Pool() is created, the batch list built and handed to pool.map
PoolCreate(r) ==
    /\ pc[r] = "pool"
    /\ LET batches == BatchesForPool(my_samples[r], mp_batch_size)
       IN  /\ batches_for_pool' = [batches_for_pool EXCEPT ![r] = batches]
           /\ results_from_pool' =
                [results_from_pool EXCEPT ![r] = Repeat(-1, Len(batches))]
           /\ pc' = [pc EXCEPT ![r] = IF batches = << >> THEN "close" ELSE "map"]
    /\ pool_used' = [pool_used EXCEPT ![r] = TRUE]
    /\ UNCHANGED << inputs, exitVars, calls, gather_buf, loggerVars, num_local_workers,
                    my_samples, pool_failed, serial_calls, serial_hits,
                    rank_local_points_in_circle, report >>

\* lines 216, 234-236: Pool() raises
PoolCreateFail(r) ==
    /\ pc[r] = "pool"
    /\ pool_failed' = [pool_failed EXCEPT ![r] = TRUE]
    /\ pc' = [pc EXCEPT ![r] = "fallback"]
    /\ UNCHANGED << inputs, exitVars, calls, gather_buf, loggerVars, num_local_workers,
                    my_samples, batches_for_pool, results_from_pool, pool_used,
                    serial_calls, serial_hits, rank_local_points_in_circle, report >>

\* line 229: a worker of the pool runs one outstanding batch
PoolBatch(r) ==
    /\ pc[r] = "map"
    /\ \E i \in 1 .. Len(batches_for_pool[r]) :
         /\ results_from_pool[r][i] = -1
         /\ \E points \in KernelOutcomes(batches_for_pool[r][i]) :
              results_from_pool' = [results_from_pool EXCEPT ![r][i] = points]
    /\ UNCHANGED << inputs, exitVars, pc, calls, gather_buf, loggerVars, num_local_workers,
                    my_samples, batches_for_pool, pool_used, pool_failed,
                    serial_calls, serial_hits, rank_local_points_in_circle, report >>

\* lines 229, 234-236: pool.map raises, whatever the workers have done so far
PoolMapFail(r) ==
    /\ pc[r] = "map"
    /\ pool_failed' = [pool_failed EXCEPT ![r] = TRUE]
    /\ pc' = [pc EXCEPT ![r] = "fallback"]
    /\ UNCHANGED << inputs, exitVars, calls, gather_buf, loggerVars, num_local_workers,
                    my_samples, batches_for_pool, results_from_pool, pool_used,
                    serial_calls, serial_hits, rank_local_points_in_circle, report >>

\* a mutant of PoolMapReturn: the results are summed while batches are
\* still outstanding
PoolMapReturnsEarly(r) ==
    /\ pc[r] = "map"
    /\ rank_local_points_in_circle' =
         [rank_local_points_in_circle EXCEPT ![r] = SumSeq(results_from_pool[r])]
    /\ pc' = [pc EXCEPT ![r] = "close"]
    /\ UNCHANGED << inputs, exitVars, calls, gather_buf, loggerVars, num_local_workers,
                    my_samples, batches_for_pool, results_from_pool, pool_used,
                    pool_failed, serial_calls, serial_hits, report >>
\* lines 229-230: pool.map returns once every batch has its result
PoolMapReturn(r) ==
    /\ pc[r] = "map"
    /\ \A i \in 1 .. Len(batches_for_pool[r]) : results_from_pool[r][i] >= 0
    /\ rank_local_points_in_circle' =
         [rank_local_points_in_circle EXCEPT ![r] = SumSeq(results_from_pool[r])]
    /\ pc' = [pc EXCEPT ![r] = "close"]
    /\ UNCHANGED << inputs, exitVars, calls, gather_buf, loggerVars, num_local_workers,
                    my_samples, batches_for_pool, results_from_pool, pool_used,
                    pool_failed, serial_calls, serial_hits, report >>

\* lines 232-247: close and join succeed; past the print of line 244 the rank
\* enters the third barrier
PoolCloseJoin(r) ==
    /\ pc[r] = "close"
    /\ \E said \in PrintOutcomes : EnterBarrier3(r, said, "raised_after_work")
    /\ UNCHANGED << inputs, exitVars, gather_buf, loggerVars, workVars, report >>

\* lines 232-236: close or join raises
PoolCloseFail(r) ==
    /\ pc[r] = "close"
    /\ pool_failed' = [pool_failed EXCEPT ![r] = TRUE]
    /\ pc' = [pc EXCEPT ![r] = "fallback"]
    /\ UNCHANGED << inputs, exitVars, calls, gather_buf, loggerVars, num_local_workers,
                    my_samples, batches_for_pool, results_from_pool, pool_used,
                    serial_calls, serial_hits, rank_local_points_in_circle, report >>

\* the kernel run on the calling thread over the sizes `sizes`
RunSerial(r, sizes, points) ==
    /\ serial_calls' = [serial_calls EXCEPT ![r] = @ \o sizes]
    /\ serial_hits' = [serial_hits EXCEPT ![r] = points]

\* lines 234-247: the except branch: its print (line 235) raises and the rank
\* is out of main with no serial run; or it runs the whole share serially and,
\* past the print of line 244, the rank enters the third barrier
SerialFallback(r) ==
    /\ pc[r] = "fallback"
    /\ \/ /\ LeaveMain(r, "raised_in_fallback")
          /\ UNCHANGED << calls, serial_calls, serial_hits,
                          rank_local_points_in_circle >>
       \/ /\ LET sizes == SerialBatches(my_samples[r], mp_batch_size)
             IN  \E points \in KernelOutcomes(SumSeq(sizes)) :
                   /\ RunSerial(r, sizes, points)
                   /\ rank_local_points_in_circle' =
                        [rank_local_points_in_circle EXCEPT
                           ![r] = FallbackPoints(@, points)]
          /\ \E said \in PrintOutcomes : EnterBarrier3(r, said, "raised_after_work")
    /\ UNCHANGED << inputs, exitVars, gather_buf, loggerVars, num_local_workers, my_samples,
                    batches_for_pool, results_from_pool, pool_used, pool_failed,
                    report >>

\* lines 238-247: no pool: one kernel call on the whole share, then, past the
\* print of line 244, the barrier
Serial(r) ==
    /\ pc[r] = "serial"
    /\ LET sizes == SerialBatches(my_samples[r], mp_batch_size)
       IN  \E points \in KernelOutcomes(SumSeq(sizes)) :
             /\ RunSerial(r, sizes, points)
             /\ rank_local_points_in_circle' =
                  [rank_local_points_in_circle EXCEPT ![r] = points]
    /\ \E said \in PrintOutcomes : EnterBarrier3(r, said, "raised_after_work")
    /\ UNCHANGED << inputs, exitVars, gather_buf, loggerVars, num_local_workers, my_samples,
                    batches_for_pool, results_from_pool, pool_used, pool_failed,
                    report >>

\* lines 202-205 and 247-251: past the third barrier the rank calls gather
\* with its pair
Gather(r) ==
    /\ pc[r] = "Barrier3"
    /\ Complete(r)
    /\ gather_buf' = [gather_buf EXCEPT
                        ![r] = RankResults(rank_local_points_in_circle[r],
                                           my_samples[r])]
    /\ Call(r, "gather")
    /\ pc' = [pc EXCEPT ![r] = "gather"]
    /\ UNCHANGED << inputs, exitVars, loggerVars, workVars, report >>

\* lines 205-209 and 251-270: on a rank other than the root gather returns,
\* before the root has made its own call or only after it (MPI leaves that to
\* the library), and main returns
GatherReturns(r) ==
    /\ r # 0
    /\ pc[r] = "gather"
    /\ \E waits_for_root \in BOOLEAN :
         waits_for_root => Len(calls[0]) >= Len(calls[r])
    /\ pc' = [pc EXCEPT ![r] = "returned"]
    /\ UNCHANGED << inputs, exitVars, calls, gather_buf, loggerVars, workVars, report >>

\* what gather returns on the root: the pairs of all ranks, in rank order
AllRankResults == [i \in 1 .. size |-> gather_buf[i - 1]]

\* lines 207-208 and 264-269: the root's report is printed line by line, and a
\* print that raises ends it: the report with its first n lines written.  The
\* header is the first line, the totals the second and third, the estimate the
\* fourth.
ReportAfter(full, n) ==
    [full EXCEPT !.lines_printed = n,
                 !.kind = IF n >= 1 THEN full.kind ELSE "none",
                 !.estimate_printed = full.estimate_printed /\ n >= 4]

\* lines 205-209 and 251-269: the root has every pair; it reports and returns,
\* or is taken out of main by a print of the report that raises
RootReport(r) ==
    /\ r = 0
    /\ pc[r] = "gather"
    /\ Complete(r)
    /\ LET full == IF my_samples[r] = 0 THEN NoSamplesReport
                   ELSE Aggregate(AllRankResults)
       IN  \E n \in 0 .. full.lines_printed :
             /\ report' = ReportAfter(full, n)
             /\ IF n = full.lines_printed
                THEN pc' = [pc EXCEPT ![r] = "returned"]
                ELSE LeaveMain(r, "raised_in_report")
    /\ UNCHANGED << inputs, exitVars, calls, gather_buf, loggerVars, workVars >>

\* ---- process exit and cleanup_logger_process ---------------------------------
\* line 100 and line 106: the two timeouts of Popen.wait
GracefulTimeout == 10
KillTimeout == 5

\* line 93: the hook acts only on a handle that is set
HandleSetAlways(handle) == TRUE
HandleSet(handle) == handle # None

\* lines 99 and 105: both signals go to the process group of the logger
SigintCall(delivered) == << "SIGINT", "pgid_of_logger", delivered >>
SigkillCall(delivered) == << "SIGKILL", "pgid_of_logger", delivered >>

\* lines 99 and 105, os.killpg(os.getpgid(pid), sig): os.getpgid raises and no
\* killpg call is made (the logger is gone); os.killpg is called and raises; or
\* the signal is delivered
KillpgOutcomes == {"getpgid_raises", "killpg_raises", "delivered"}

\* the os.killpg calls made so far, after that line
SignalsAfter(sigs, outcome, call) ==
    IF outcome = "getpgid_raises" THEN sigs ELSE Append(sigs, call)

\* lines 96, 101, 103, 108 and 110: each print of the hook writes its line or
\* raises (stdout closed or full at interpreter exit).  After a last print
\* that is inside a handler, or after none, the hook returns or is left by the
\* exception.
HookExits == {"hook_done", "hook_raised"}

\* lines 111-112: the finally clause clears the handle; the hook is left
FinallyKeepsHandle(r, after) ==
    /\ UNCHANGED << logger_process_object, clears >>
    /\ exit_pc' = [exit_pc EXCEPT ![r] = after]
Finally(r, after) ==
    /\ logger_process_object' = [logger_process_object EXCEPT ![r] = None]
    /\ clears' = [clears EXCEPT ![r] = @ + 1]
    /\ exit_pc' = [exit_pc EXCEPT ![r] = after]

\* lines 93-100 and 109-112: cleanup_logger_process is entered.  With no handle
\* it does nothing.  Otherwise the print of line 96, before the try, raises and
\* the hook is left with the handle as it was; or line 99 is reached: it
\* raises, which is caught at line 109, whose print writes or raises, and the
\* finally clause runs; or SIGINT is delivered and the hook waits.
InvokeCleanup(r) ==
    /\ hook_calls' = [hook_calls EXCEPT ![r] = @ + 1]
    /\ IF HandleSet(logger_process_object[r])
       THEN \/ /\ exit_pc' = [exit_pc EXCEPT ![r] = "hook_raised"]
               /\ UNCHANGED << logger_process_object, clears, agent, signals >>
            \/ \E outcome \in KillpgOutcomes :
                 /\ signals' = [signals EXCEPT ![r] =
                                  SignalsAfter(@, outcome, SigintCall(outcome = "delivered"))]
                 /\ IF outcome = "delivered"
                    THEN /\ exit_pc' = [exit_pc EXCEPT ![r] = "wait10"]
                         /\ UNCHANGED << logger_process_object, clears >>
                    ELSE \E after \in HookExits : Finally(r, after)
                 /\ UNCHANGED agent
       ELSE /\ exit_pc' = [exit_pc EXCEPT ![r] = "hook_done"]
            /\ UNCHANGED << logger_process_object, clears, agent, signals >>
    /\ UNCHANGED waits

\* lines 81-82 and 272-273: the interpreter runs the registered hook at its
\* exit, when main has returned and when an exception has left main
AtExitDue(r) == MainLeft(r)

\* lines 272-275: the process of rank r exits and its registered hook runs (the
\* exit of a process with no hook has no effect on what is modelled here)
ProcessExit(r) ==
    /\ AtExitDue(r)
    /\ exit_pc[r] = "running"
    /\ atexit_registered[r]
    /\ InvokeCleanup(r)
    /\ UNCHANGED << inputs, pc, calls, allgather_buf, gather_buf, dir_created,
                    is_node_leader, atexit_registered, launch_attempted, workVars,
                    report >>

\* a mutant of GracefulWaitReturns: SIGKILL after a wait that returned
GracefulWaitReturnsThenKills(r) ==
    /\ exit_pc[r] = "wait10"
    /\ agent[r] = "running"
    /\ waits' = [waits EXCEPT ![r] = Append(@, << GracefulTimeout, "exited" >>)]
    /\ agent' = [agent EXCEPT ![r] = "reaped"]
    /\ signals' = [signals EXCEPT ![r] = Append(@, SigkillCall(TRUE))]
    /\ Finally(r, "hook_done")
    /\ UNCHANGED << inputs, pc, calls, allgather_buf, gather_buf, dir_created,
                    is_node_leader, atexit_registered, launch_attempted, workVars,
                    report, hook_calls >>
\* lines 100-101 and 109-112: the logger exits within the timeout and wait
\* reaps it; the print of line 101 writes, or it raises, which is caught at
\* line 109, whose print writes or raises; the finally clause runs
GracefulWaitReturns(r) ==
    /\ exit_pc[r] = "wait10"
    /\ agent[r] = "running"
    /\ waits' = [waits EXCEPT ![r] = Append(@, << GracefulTimeout, "exited" >>)]
    /\ agent' = [agent EXCEPT ![r] = "reaped"]
    /\ \E after \in HookExits : Finally(r, after)
    /\ UNCHANGED << inputs, pc, calls, allgather_buf, gather_buf, dir_created,
                    is_node_leader, atexit_registered, launch_attempted, workVars,
                    report, signals, hook_calls >>

\* lines 102-108 and 111-112: wait raises TimeoutExpired.  The print of line
\* 103 raises inside the handler and the hook is left through the finally
\* clause with no SIGKILL; or line 105 is reached: it raises, which is caught
\* at line 107, whose print writes or raises; or SIGKILL is delivered and the
\* hook waits again.
GracefulWaitTimesOut(r) ==
    /\ exit_pc[r] = "wait10"
    /\ agent[r] = "running"
    /\ waits' = [waits EXCEPT ![r] = Append(@, << GracefulTimeout, "timeout" >>)]
    /\ \/ /\ Finally(r, "hook_raised")
          /\ UNCHANGED signals
       \/ \E outcome \in KillpgOutcomes :
            /\ signals' = [signals EXCEPT ![r] =
                             SignalsAfter(@, outcome, SigkillCall(outcome = "delivered"))]
            /\ IF outcome = "delivered"
               THEN /\ exit_pc' = [exit_pc EXCEPT ![r] = "wait5"]
                    /\ UNCHANGED << logger_process_object, clears >>
               ELSE \E after \in HookExits : Finally(r, after)
    /\ UNCHANGED << inputs, pc, calls, allgather_buf, gather_buf, dir_created,
                    is_node_leader, atexit_registered, launch_attempted, workVars,
                    report, agent, hook_calls >>

\* lines 106 and 111-112: the logger dies within the second timeout, wait reaps it
KillWaitReturns(r) ==
    /\ exit_pc[r] = "wait5"
    /\ agent[r] = "running"
    /\ waits' = [waits EXCEPT ![r] = Append(@, << KillTimeout, "exited" >>)]
    /\ agent' = [agent EXCEPT ![r] = "reaped"]
    /\ Finally(r, "hook_done")
    /\ UNCHANGED << inputs, pc, calls, allgather_buf, gather_buf, dir_created,
                    is_node_leader, atexit_registered, launch_attempted, workVars,
                    report, signals, hook_calls >>

\* lines 106-112: the second wait raises TimeoutExpired, caught at line 107,
\* whose print writes or raises; the logger is still there when the handle is
\* cleared
KillWaitTimesOut(r) ==
    /\ exit_pc[r] = "wait5"
    /\ agent[r] = "running"
    /\ waits' = [waits EXCEPT ![r] = Append(@, << KillTimeout, "timeout" >>)]
    /\ \E after \in HookExits : Finally(r, after)
    /\ UNCHANGED << inputs, pc, calls, allgather_buf, gather_buf, dir_created,
                    is_node_leader, atexit_registered, launch_attempted, workVars,
                    report, agent, signals, hook_calls >>

Next ==
    \/ \E r \in Ranks : Startup(r)
    \/ \E r \in Ranks : AfterBarrier1(r)
    \/ \E r \in Ranks : StartNodeLoggerIfLeader(r)
    \/ \E r \in Ranks : Partition(r)
    \/ \E r \in Ranks : ZeroSamples(r)
    \/ \E r \in Ranks : PoolCreate(r)
    \/ \E r \in Ranks : PoolCreateFail(r)
    \/ \E r \in Ranks : PoolBatch(r)
    \/ \E r \in Ranks : PoolMapFail(r)
    \/ \E r \in Ranks : PoolMapReturn(r)
    \/ \E r \in Ranks : PoolCloseJoin(r)
    \/ \E r \in Ranks : PoolCloseFail(r)
    \/ \E r \in Ranks : SerialFallback(r)
    \/ \E r \in Ranks : Serial(r)
    \/ \E r \in Ranks : Gather(r)
    \/ \E r \in Ranks : GatherReturns(r)
    \/ \E r \in Ranks : RootReport(r)
    \/ \E r \in Ranks : ProcessExit(r)
    \/ \E r \in Ranks : GracefulWaitReturns(r)
    \/ \E r \in Ranks : GracefulWaitTimesOut(r)
    \/ \E r \in Ranks : KillWaitReturns(r)
    \/ \E r \in Ranks : KillWaitTimesOut(r)

Spec == Init /\ [][Next]_vars

\* ---- the pure functions on their own, over wider inputs ---------------------
\* Every rank's share, batch list and election result, computed from the inputs
\* alone: what Partition, PoolCreate and StartNodeLoggerIfLeader compute.
PInit ==
    /\ size \in 1 .. PMaxRanks
    /\ total_samples \in 0 .. PMaxTotal
    /\ mp_batch_size \in 1 .. PMaxBatch
    /\ enable_multi_node_logging = TRUE
    /\ job_output_dir \in JobOutputDirs
    /\ hostname \in [Ranks -> Hosts]
    /\ InitRanks

\* lines 191-198 on every rank
ComputePartitions ==
    /\ \A r \in Ranks : pc[r] = "start"
    /\ my_samples' = [r \in Ranks |-> MySamples(r, total_samples, size)]
    /\ pc' = [r \in Ranks |-> "partitioned"]
    /\ UNCHANGED << inputs, exitVars, calls, gather_buf, loggerVars, num_local_workers,
                    batches_for_pool, results_from_pool, pool_used, pool_failed,
                    serial_calls, serial_hits, rank_local_points_in_circle, report >>

\* lines 220-225 on every rank's share
BuildBatches ==
    /\ \A r \in Ranks : pc[r] = "partitioned"
    /\ batches_for_pool' =
         [r \in Ranks |-> BatchesForPool(my_samples[r], mp_batch_size)]
    /\ pc' = [r \in Ranks |-> "batched"]
    /\ UNCHANGED << inputs, exitVars, calls, gather_buf, loggerVars, num_local_workers,
                    my_samples, results_from_pool, pool_used, pool_failed,
                    serial_calls, serial_hits, rank_local_points_in_circle, report >>

\* line 39 on every rank
PublishHostnames ==
    /\ \A r \in Ranks : pc[r] = "batched"
    /\ allgather_buf' = [r \in Ranks |-> << r, hostname[r] >>]
    /\ pc' = [r \in Ranks |-> "published"]
    /\ UNCHANGED << inputs, exitVars, calls, gather_buf, dir_created, is_node_leader,
                    logger_process_object, atexit_registered, launch_attempted,
                    workVars, report >>

\* lines 41-46 on every rank
ElectLeaders ==
    /\ \A r \in Ranks : pc[r] = "published"
    /\ is_node_leader' =
         [r \in Ranks |-> IsNodeLeader(r, hostname[r], AllNodeRanksHostnames)]
    /\ pc' = [r \in Ranks |-> "elected"]
    /\ UNCHANGED << inputs, exitVars, calls, gather_buf, dir_created, allgather_buf,
                    logger_process_object, atexit_registered, launch_attempted,
                    workVars, report >>

PNext == ComputePartitions \/ BuildBatches \/ PublishHostnames \/ ElectLeaders

PartSpec == PInit /\ [][PNext]_vars

\* main on every rank, lines 134-270, without the exit hook, which acts on a
\* rank only after its main is over.
MainNext ==
    \/ \E r \in Ranks : Startup(r)
    \/ \E r \in Ranks : AfterBarrier1(r)
    \/ \E r \in Ranks : StartNodeLoggerIfLeader(r)
    \/ \E r \in Ranks : Partition(r)
    \/ \E r \in Ranks : ZeroSamples(r)
    \/ \E r \in Ranks : PoolCreate(r)
    \/ \E r \in Ranks : PoolCreateFail(r)
    \/ \E r \in Ranks : PoolBatch(r)
    \/ \E r \in Ranks : PoolMapFail(r)
    \/ \E r \in Ranks : PoolMapReturn(r)
    \/ \E r \in Ranks : PoolCloseJoin(r)
    \/ \E r \in Ranks : PoolCloseFail(r)
    \/ \E r \in Ranks : SerialFallback(r)
    \/ \E r \in Ranks : Serial(r)
    \/ \E r \in Ranks : Gather(r)
    \/ \E r \in Ranks : GatherReturns(r)
    \/ \E r \in Ranks : RootReport(r)

\* The runs checked for how the ranks keep in step. The sizes of the shares do
\* not matter to that, nor to the hooks: the totals run up to ExitMaxTotal,
\* enough for a rank with no share, a serial rank and a pool of two batches.
ExitMaxTotal == 2

ExitInit ==
    /\ size \in 1 .. MaxRanks
    /\ total_samples \in 0 .. ExitMaxTotal
    /\ mp_batch_size \in 1 .. MaxBatch
    /\ enable_multi_node_logging \in BOOLEAN
    /\ job_output_dir \in JobOutputDirs
    /\ hostname \in {h \in [Ranks -> Hosts] : h[0] = "nodeA"}
    /\ InitRanks

MainSpec == ExitInit /\ [][MainNext]_vars

\* ---- the work of the ranks, without the logger -------------------------------
\* The runs without --enable-multi-node-logging: no election and no launch
\* (line 161), every other step of main, over the full range of totals.
WorkInit ==
    /\ size \in 1 .. MaxRanks
    /\ total_samples \in 0 .. MaxTotal
    /\ mp_batch_size \in 1 .. MaxBatch
    /\ enable_multi_node_logging = FALSE
    /\ job_output_dir \in JobOutputDirs
    /\ hostname \in {h \in [Ranks -> Hosts] : h[0] = "nodeA"}
    /\ InitRanks

WorkNext ==
    \/ \E r \in Ranks : Startup(r)
    \/ \E r \in Ranks : AfterBarrier1(r)
    \/ \E r \in Ranks : Partition(r)
    \/ \E r \in Ranks : ZeroSamples(r)
    \/ \E r \in Ranks : PoolCreate(r)
    \/ \E r \in Ranks : PoolCreateFail(r)
    \/ \E r \in Ranks : PoolBatch(r)
    \/ \E r \in Ranks : PoolMapFail(r)
    \/ \E r \in Ranks : PoolMapReturn(r)
    \/ \E r \in Ranks : PoolCloseJoin(r)
    \/ \E r \in Ranks : PoolCloseFail(r)
    \/ \E r \in Ranks : SerialFallback(r)
    \/ \E r \in Ranks : Serial(r)
    \/ \E r \in Ranks : Gather(r)
    \/ \E r \in Ranks : GatherReturns(r)
    \/ \E r \in Ranks : RootReport(r)

WorkSpec == WorkInit /\ [][WorkNext]_vars

\* ---- the logger from launch to exit, with no samples to share ----------------
\* The runs with --enable-multi-node-logging and --total-samples 0: every rank
\* takes the early return of lines 200-209, so the steps of main are those of
\* that path, followed by the exit of each process and its hook.
ZeroInit ==
    /\ size \in 1 .. MaxRanks
    /\ total_samples = 0
    /\ mp_batch_size = 1
    /\ enable_multi_node_logging = TRUE
    /\ job_output_dir \in JobOutputDirs
    /\ hostname \in {h \in [Ranks -> Hosts] : h[0] = "nodeA"}
    /\ InitRanks

ZeroNext ==
    \/ \E r \in Ranks : Startup(r)
    \/ \E r \in Ranks : AfterBarrier1(r)
    \/ \E r \in Ranks : StartNodeLoggerIfLeader(r)
    \/ \E r \in Ranks : Partition(r)
    \/ \E r \in Ranks : ZeroSamples(r)
    \/ \E r \in Ranks : Gather(r)
    \/ \E r \in Ranks : GatherReturns(r)
    \/ \E r \in Ranks : RootReport(r)
    \/ \E r \in Ranks : ProcessExit(r)
    \/ \E r \in Ranks : GracefulWaitReturns(r)
    \/ \E r \in Ranks : GracefulWaitTimesOut(r)
    \/ \E r \in Ranks : KillWaitReturns(r)
    \/ \E r \in Ranks : KillWaitTimesOut(r)

ZeroExitSpec == ZeroInit /\ [][ZeroNext]_vars

\* ---- cleanup_logger_process on its own ----------------------------------------
\* how often the hook is entered per process in HookSpec
MaxHookCalls == 2

\* The processes after main has returned with no samples to share, two hosts,
\* ranks 0 and 1 their leaders; each leader's launch went one of the ways that
\* let main go on.
HInit ==
    /\ size \in 1 .. MaxRanks
    /\ total_samples = 0
    /\ mp_batch_size = 1
    /\ enable_multi_node_logging = TRUE
    /\ job_output_dir \in JobOutputDirs
    /\ hostname = [r \in Ranks |-> IF r = 0 THEN "nodeA" ELSE "nodeB"]
    /\ pc = [r \in Ranks |-> "returned"]
    /\ calls = [r \in Ranks |->
                  << "Barrier", "allgather", "Barrier", "Barrier", "gather" >>]
    /\ allgather_buf = [r \in Ranks |-> << r, hostname[r] >>]
    /\ gather_buf = [r \in Ranks |-> << 0, 0 >>]
    /\ dir_created = MakedirsDue
    /\ is_node_leader = [r \in Ranks |-> r <= 1]
    /\ launch_attempted = is_node_leader
    /\ \E outcome \in [Ranks -> LaunchOutcomes \ {"announce_raises"}] :
         /\ atexit_registered =
              [r \in Ranks |-> is_node_leader[r] /\ HookRegistered(outcome[r])]
         /\ logger_process_object =
              [r \in Ranks |-> IF is_node_leader[r]
                               THEN LaunchHandle(outcome[r], "written")
                               ELSE None]
         /\ agent =
              [r \in Ranks |-> IF is_node_leader[r] THEN AgentAfterLaunch(outcome[r])
                                                    ELSE "none"]
    /\ num_local_workers \in [Ranks -> {1, 2}]
    /\ my_samples = [r \in Ranks |-> 0]
    /\ batches_for_pool = [r \in Ranks |-> << >>]
    /\ results_from_pool = [r \in Ranks |-> << >>]
    /\ pool_used = [r \in Ranks |-> FALSE]
    /\ pool_failed = [r \in Ranks |-> FALSE]
    /\ serial_calls = [r \in Ranks |-> << >>]
    /\ serial_hits = [r \in Ranks |-> -1]
    /\ rank_local_points_in_circle = [r \in Ranks |-> 0]
    /\ report = NoSamplesReport
    /\ exit_pc = [r \in Ranks |-> "running"]
    /\ signals = [r \in Ranks |-> << >>]
    /\ waits = [r \in Ranks |-> << >>]
    /\ hook_calls = [r \in Ranks |-> 0]
    /\ clears = [r \in Ranks |-> 0]

\* lines 88-112: cleanup_logger_process is called, whatever the handle, also
\* after an earlier call has returned
CallCleanup(r) ==
    /\ exit_pc[r] \in {"running", "hook_done", "hook_raised"}
    /\ hook_calls[r] < MaxHookCalls
    /\ InvokeCleanup(r)
    /\ UNCHANGED << inputs, pc, calls, allgather_buf, gather_buf, dir_created,
                    is_node_leader, atexit_registered, launch_attempted, workVars,
                    report >>

HNext ==
    \/ \E r \in Ranks : CallCleanup(r)
    \/ \E r \in Ranks : GracefulWaitReturns(r)
    \/ \E r \in Ranks : GracefulWaitTimesOut(r)
    \/ \E r \in Ranks : KillWaitReturns(r)
    \/ \E r \in Ranks : KillWaitTimesOut(r)

HookSpec == HInit /\ [][HNext]_vars

\* ---- properties -------------------------------------------------------------
RECURSIVE SumRanks(_, _)
SumRanks(f, n) == IF n = 0 THEN 0 ELSE f[n - 1] + SumRanks(f, n - 1)

\* rank r has computed its share (lines 191-198)
ShareComputed(r) ==
    pc[r] \notin {"start", "Barrier1", "allgather", "Barrier2",
                  "raised_in_startup", "raised_before_launch",
                  "raised_in_launch", "raised_in_setup"}
\* rank r is past its sampling work
WorkDone(r) ==
    pc[r] \in {"Barrier3", "gather", "returned", "raised_after_work", "raised_in_report"}
AllReturned == \A r \in Ranks : pc[r] = "returned"

\* C1: once every rank has computed its share, the shares sum exactly to
\* total_samples, for every total_samples >= 0 and every size >= 1.
C1_SharesSumToTotal ==
    (\A r \in Ranks : ShareComputed(r)) => SumRanks(my_samples, size) = total_samples

C1_Witness ==
    /\ \A r \in Ranks : ShareComputed(r)
    /\ size = 4 /\ total_samples = 11
    /\ SumRanks(my_samples, size) = 11

\* the collectives of main in their order: Barrier (line 158), allgather when
\* logging is enabled (line 39), Barrier (line 169), Barrier (line 202 or 247),
\* gather (line 205 or 251)
ExpectedCalls ==
    IF enable_multi_node_logging
    THEN << "Barrier", "allgather", "Barrier", "Barrier", "gather" >>
    ELSE << "Barrier", "Barrier", "Barrier", "gather" >>

\* C2 as stated: every rank calls the same collectives in the same order and
\* the same number of times, whatever its share, its leadership, the outcome
\* of its launch and of its pool: what a rank has called so far is a prefix of
\* the list, and a rank whose main is over has called all of it.
C2_SameCollectiveSequence ==
    \A r \in Ranks :
        /\ Len(calls[r]) <= Len(ExpectedCalls)
        /\ calls[r] = SubSeq(ExpectedCalls, 1, Len(calls[r]))
        /\ (MainLeft(r) => calls[r] = ExpectedCalls)

\* C3 as stated, on the runs that have come to their end: when no rank can
\* take a step of main any more, every rank has returned from main; no rank is
\* left blocked in a collective.
C3_EveryRankReturns == (~ENABLED MainNext) => AllReturned

\* the points rank r counted for its own share: the sum of its pool's results,
\* or the result of its serial run
RankHits(r) ==
    IF my_samples[r] = 0 THEN 0
    ELSE IF pool_used[r] /\ ~pool_failed[r] THEN SumSeq(results_from_pool[r])
    ELSE serial_hits[r]

RankHitsOfAll == [r \in Ranks |-> RankHits(r)]

\* C4: when the root aggregates, the total it reports is total_samples and the
\* points it reports are the sum of the points each rank counted for its share;
\* what the root received from rank r is rank r's own pair.
C4_RootTotals ==
    report.kind = "results" =>
        /\ report.total_samples_overall = total_samples
        /\ report.total_points_in_circle_overall = SumRanks(RankHitsOfAll, size)
        /\ \A r \in Ranks : gather_buf[r] = << RankHits(r), my_samples[r] >>

C4_Witness ==
    /\ report.kind = "results"
    /\ size = 2
    /\ RankHits(0) = 2 /\ RankHits(1) = 1
    /\ report.total_points_in_circle_overall = 3

\* the ranks on host h
RanksOn(h) == {r \in Ranks : hostname[r] = h}
MinOf(S) == CHOOSE m \in S : \A x \in S : m <= x

\* C5: once every rank has computed is_node_leader, each host that has a rank
\* has exactly one leader, the lowest rank on that host.
C5_OneLeaderPerHost ==
    (\A r \in Ranks : pc[r] = "elected") =>
        \A h \in Hosts :
            RanksOn(h) # {} =>
                /\ Cardinality({r \in RanksOn(h) : is_node_leader[r]}) = 1
                /\ is_node_leader[MinOf(RanksOn(h))]

C5_Witness ==
    /\ \A r \in Ranks : pc[r] = "elected"
    /\ size = 4
    /\ hostname = [r \in Ranks |-> IF r \in {0, 3} THEN "nodeA" ELSE "nodeB"]
    /\ is_node_leader = [r \in Ranks |-> r \in {0, 1}]

\* C6: with total_samples = 0 every share is 0, every pair sent to the root is
\* (0, 0), and the root's report carries no estimate or the estimate 0; no
\* report ever holds a fraction with denominator 0.
C6_ZeroTotal ==
    /\ report.estimated_pi[2] # 0
    /\ total_samples = 0 =>
          /\ \A r \in Ranks : ShareComputed(r) => my_samples[r] = 0
          /\ \A r \in Ranks : gather_buf[r] # NoPair => gather_buf[r] = << 0, 0 >>
          /\ \A r \in Ranks : serial_calls[r] = << >> /\ ~pool_used[r]
          /\ report.kind # "none" =>
                (~report.estimate_printed \/ report.estimated_pi = << 0, 1 >>)

C6_Witness ==
    /\ total_samples = 0
    /\ size = 2
    /\ AllReturned
    /\ gather_buf = [r \in Ranks |-> << 0, 0 >>]
    /\ report.kind = "no_samples"

\* C7: rank r gets base + 1 when r < remainder and base otherwise, so shares
\* differ by at most 1 and the larger shares are those of the lowest ranks;
\* 10 samples over 3 ranks are shared 4, 3, 3.
C7_ShareOfEachRank ==
    (\A r \in Ranks : ShareComputed(r)) =>
        LET base == total_samples \div size
            remainder == total_samples % size
        IN  /\ \A r \in Ranks :
                  my_samples[r] = IF r < remainder THEN base + 1 ELSE base
            /\ \A r, q \in Ranks : my_samples[r] - my_samples[q] <= 1
            /\ \A r, q \in Ranks : r < q => my_samples[r] >= my_samples[q]
            /\ (total_samples = 10 /\ size = 3) =>
                  my_samples = (0 :> 4) @@ (1 :> 3) @@ (2 :> 3)

C7_Witness ==
    /\ total_samples = 10 /\ size = 3
    /\ \A r \in Ranks : ShareComputed(r)
    /\ my_samples[0] = 4 /\ my_samples[1] = 3 /\ my_samples[2] = 3

\* the batch list rank r built (lines 220-225)
BatchesBuilt(r) == pool_used[r] \/ pc[r] \in {"batched", "published", "elected"}

\* C8: the batch list of a share n with batch size b is n div b batches of
\* size b, then one batch of n mod b when that is positive; the sizes sum to n
\* and none exceeds b.
C8_BatchList ==
    \A r \in Ranks :
        BatchesBuilt(r) =>
            LET n == my_samples[r]
                b == mp_batch_size
                bs == batches_for_pool[r]
                full == n \div b
            IN  /\ Len(bs) = full + (IF n % b > 0 THEN 1 ELSE 0)
                /\ \A i \in 1 .. full : bs[i] = b
                /\ (n % b > 0 => bs[Len(bs)] = n % b)
                /\ SumSeq(bs) = n
                /\ \A i \in 1 .. Len(bs) : bs[i] >= 1 /\ bs[i] <= b

C8_Witness ==
    \E r \in Ranks :
        /\ pc[r] = "batched"
        /\ my_samples[r] = 11 /\ mp_batch_size = 4
        /\ batches_for_pool[r] = << 4, 4, 3 >>

\* rank r ran its share on the calling thread (lines 237 and 240)
RanSerially(r) == WorkDone(r) /\ my_samples[r] > 0 /\ ~(pool_used[r] /\ ~pool_failed[r])

\* C9 as stated: the serial path runs the batches the pool would be given.
C9_SerialRunsPoolBatches ==
    \A r \in Ranks :
        RanSerially(r) =>
            serial_calls[r] = BatchesForPool(my_samples[r], mp_batch_size)

\* C9, amended: the serial path is one kernel call on the whole share; its
\* pair has the share as its trial count and that call's result as its points;
\* the call is the pool's batch list exactly when the share fits in one batch.
C9_SerialIsOneCall ==
    \A r \in Ranks :
        RanSerially(r) =>
            /\ serial_calls[r] = << my_samples[r] >>
            /\ rank_local_points_in_circle[r] = serial_hits[r]
            /\ (gather_buf[r] # NoPair =>
                   gather_buf[r] = << serial_hits[r], my_samples[r] >>)
            /\ (my_samples[r] <= mp_batch_size <=>
                   serial_calls[r] = BatchesForPool(my_samples[r], mp_batch_size))

C9_Witness ==
    \E r \in Ranks :
        /\ pc[r] = "returned"
        /\ ~pool_used[r]
        /\ num_local_workers[r] = 1
        /\ my_samples[r] = 3 /\ mp_batch_size = 2
        /\ serial_calls[r] = << 3 >>
        /\ gather_buf[r] = << 2, 3 >>

\* C10 as stated: a rank whose pool failed (at creation, in map, or in
\* close/join) does not abort: it is in the handler about to run its share
\* serially, or has run its whole share in one serial call and gone on, and its
\* pair is that call's result with the share as trial count, whatever the pool
\* had returned.
C10_PoolFailureFallsBack ==
    \A r \in Ranks :
        pool_failed[r] =>
            /\ pc[r] \in {"fallback", "Barrier3", "gather", "returned"}
            /\ (pc[r] = "fallback" => ENABLED SerialFallback(r))
            /\ (WorkDone(r) =>
                   /\ serial_calls[r] = << my_samples[r] >>
                   /\ rank_local_points_in_circle[r] = serial_hits[r]
                   /\ (gather_buf[r] # NoPair =>
                          gather_buf[r] = << serial_hits[r], my_samples[r] >>))

\* rank r took the branch of line 214 that creates the pool
TookPoolBranch(r) == pc[r] \in {"pool", "map", "close"} \/ pool_used[r] \/ pool_failed[r]

LaunchFailed(r) == launch_attempted[r] /\ agent[r] = "none"

\* C12 as stated: a launch in which open or Popen raised leaves the handle None
\* and registers no hook, and the rank goes on: it has not left main by an
\* exception, what it has called is a prefix of the collectives of the run,
\* and when it has returned it has called them all and its pair is gathered.
C12_LaunchFailureIsNotFatal ==
    \A r \in Ranks :
        LaunchFailed(r) =>
            /\ logger_process_object[r] = None
            /\ ~atexit_registered[r]
            /\ pc[r] \notin Raised
            /\ calls[r] = SubSeq(ExpectedCalls, 1, Len(calls[r]))
            /\ (pc[r] = "returned" =>
                   /\ calls[r] = ExpectedCalls
                   /\ gather_buf[r] = << RankHits(r), my_samples[r] >>)

\* the first wait of the hook on rank r returned within the graceful timeout
GracefulExit(r) ==
    Len(waits[r]) >= 1 /\ waits[r][1] = << GracefulTimeout, "exited" >>

\* the hook of rank r is over: it has returned or was left by an exception
HookOver(r) == exit_pc[r] \in HookExits

\* C13: when the agent exits within the graceful timeout after the interrupt,
\* the hook has sent the interrupt to the agent's group and nothing else, waited
\* once, and is over with the handle cleared and the agent reaped; no kill
\* signal is sent.
C13_GracefulStop ==
    \A r \in Ranks :
        GracefulExit(r) =>
            /\ signals[r] = << SigintCall(TRUE) >>
            /\ waits[r] = << << GracefulTimeout, "exited" >> >>
            /\ HookOver(r)
            /\ logger_process_object[r] = None
            /\ agent[r] = "reaped"

C13_Witness ==
    \E r \in Ranks :
        /\ GracefulExit(r)
        /\ exit_pc[r] = "hook_done"
        /\ hook_calls[r] = 1
        /\ logger_process_object[r] = None

\* the first wait of the hook on rank r ran into the graceful timeout
GracefulTimedOut(r) ==
    Len(waits[r]) >= 1 /\ waits[r][1] = << GracefulTimeout, "timeout" >>

\* C14 as stated: when the graceful wait has timed out the hook has sent
\* SIGKILL, once, to the same process group the interrupt went to, and when it
\* is over the handle is cleared; SIGKILL is sent only as the second signal,
\* after an interrupt that was delivered and a graceful wait that timed out.
C14_ForcedStop ==
    \A r \in Ranks :
        /\ GracefulTimedOut(r) =>
              /\ Len(signals[r]) = 2
              /\ signals[r][1] = SigintCall(TRUE)
              /\ signals[r][2][1] = "SIGKILL"
              /\ signals[r][2][2] = signals[r][1][2]
              /\ (HookOver(r) => logger_process_object[r] = None)
        /\ \A i \in 1 .. Len(signals[r]) :
              signals[r][i][1] = "SIGKILL" =>
                  /\ i = 2
                  /\ signals[r][1] = SigintCall(TRUE)
                  /\ GracefulTimedOut(r)

\* the hook on rank r cleared a handle that had been set
ClearedByHook(r) == clears[r] >= 1

\* C15 as stated: the handle is cleared at most once per process, and only
\* after the agent has been reaped.
C15_ClearedOnlyWhenReaped ==
    \A r \in Ranks :
        /\ clears[r] <= 1
        /\ (ClearedByHook(r) => agent[r] = "reaped")

\* C15: the hook clears the handle at most once per process, and an agent
\* that was reaped has had its handle cleared; when the last wait the hook made
\* returned, the agent is reaped; the hook also clears the handle with the
\* agent not reaped, and then it made no wait or its last wait timed out.
C15_ClearedOnceReapedUnlessFailed ==
    \A r \in Ranks :
        /\ clears[r] <= 1
        /\ (agent[r] = "reaped" => ClearedByHook(r))
        /\ ClearedByHook(r) =>
              /\ logger_process_object[r] = None
              /\ HookOver(r)
              /\ \/ /\ agent[r] = "reaped"
                    /\ waits[r] # << >>
                    /\ waits[r][Len(waits[r])][2] = "exited"
                 \/ /\ agent[r] # "reaped"
                    /\ waits[r] = << >>
                 \/ /\ agent[r] # "reaped"
                    /\ waits[r] # << >>
                    /\ waits[r][Len(waits[r])][2] = "timeout"

C15_Witness ==
    \E r \in Ranks :
        /\ ClearedByHook(r)
        /\ agent[r] = "running"
        /\ waits[r] = << << GracefulTimeout, "timeout" >>, << KillTimeout, "timeout" >> >>
        /\ logger_process_object[r] = None

\* a step of the hook of rank r that is waiting on the agent
HookWaitStep(r) ==
    \/ GracefulWaitReturns(r)
    \/ GracefulWaitTimesOut(r)
    \/ KillWaitReturns(r)
    \/ KillWaitTimesOut(r)

\* C16 as stated: the hook runs at most once per process during the run, makes
\* at most two signal calls and at most two waits, each with a timeout of 10 or
\* 5 seconds, can always take its next step while it waits, is never left by
\* an exception, and when it is over the handle is None.
C16_HookTerminatesQuietly ==
    \A r \in Ranks :
        /\ exit_pc[r] \in {"running", "wait10", "wait5", "hook_done"}
        /\ hook_calls[r] <= 1
        /\ Len(signals[r]) <= 2 /\ Len(waits[r]) <= 2
        /\ \A i \in 1 .. Len(waits[r]) :
              waits[r][i][1] = IF i = 1 THEN GracefulTimeout ELSE KillTimeout
        /\ (exit_pc[r] \in {"wait10", "wait5"} => ENABLED HookWaitStep(r))
        /\ (HookOver(r) => logger_process_object[r] = None)

\* a lower rank shares rank r's hostname
NonLeader(r) == \E q \in Ranks : q < r /\ hostname[q] = hostname[r]

\* C17: a rank that is not the lowest on its hostname never launches, never
\* holds a handle, never registers or runs the hook and never sends a signal;
\* so at most one agent is ever started per hostname.
C17_OnlyLeadersSupervise ==
    /\ \A r \in Ranks :
          NonLeader(r) =>
              /\ ~is_node_leader[r]
              /\ ~launch_attempted[r] /\ ~atexit_registered[r]
              /\ logger_process_object[r] = None
              /\ agent[r] = "none"
              /\ signals[r] = << >> /\ waits[r] = << >>
              /\ hook_calls[r] = 0 /\ clears[r] = 0
    /\ \A h \in Hosts : Cardinality({r \in RanksOn(h) : agent[r] # "none"}) <= 1

C17_Witness ==
    /\ size = 2 /\ hostname[0] = hostname[1]
    /\ AllReturned
    /\ agent[0] = "reaped" /\ signals[0] # << >>
    /\ NonLeader(1) /\ agent[1] = "none"

\* C18: a call of the hook that finds the handle None, cleared by an earlier
\* call or never set, sends no signal, waits for nothing, and leaves the
\* handle, the agent and the count of clearings as they were; the hook has
\* returned right after it.
C18_NoOpOnClearedHandle ==
    [][\A r \in Ranks :
          (hook_calls'[r] = hook_calls[r] + 1 /\ logger_process_object[r] = None) =>
              /\ signals'[r] = signals[r]
              /\ waits'[r] = waits[r]
              /\ agent'[r] = agent[r]
              /\ clears'[r] = clears[r]
              /\ logger_process_object'[r] = None
              /\ exit_pc'[r] = "hook_done"]_vars

C18_Witness ==
    /\ size = 2
    /\ hook_calls[0] = 2 /\ exit_pc[0] = "hook_done"
    /\ clears[0] = 1 /\ agent[0] = "reaped"
    /\ signals[0] = << SigintCall(TRUE) >>
    /\ hook_calls[1] = 1 /\ exit_pc[1] = "hook_done"
    /\ agent[1] = "none" /\ signals[1] = << >> /\ clears[1] = 0

\* the hook of rank r has started to act on the agent
HookActed(r) ==
    \/ signals[r] # << >>
    \/ waits[r] # << >>
    \/ hook_calls[r] > 0
    \/ clears[r] > 0
    \/ exit_pc[r] # "running"

\* C19 as stated: the hook acts only when main is over on that rank, after its
\* final gather when main has returned: no signal is sent, no wait made and the
\* handle not cleared while the rank is still in main; until then a launched
\* agent runs and its handle is held.
C19_NoSignalBeforeReturn ==
    \A r \in Ranks :
        /\ HookActed(r) => MainLeft(r)
        /\ (pc[r] = "returned" => calls[r] = ExpectedCalls)
        /\ (~MainLeft(r) /\ agent[r] # "none") =>
              /\ agent[r] = "running"
              /\ logger_process_object[r] = "Popen"

\* C20: with a kernel that returns between 0 and n for n trials, what a rank
\* has counted never exceeds its share, on the pool path, the serial path and
\* the fallback path; the pair it hands to the gather is (hits, trials) with
\* hits <= trials, and the root's totals satisfy hits <= trials.
C20_HitsAtMostTrials ==
    /\ \A r \in Ranks :
          /\ 0 <= rank_local_points_in_circle[r]
          /\ rank_local_points_in_circle[r] <= my_samples[r]
          /\ (WorkDone(r) => RankHits(r) <= my_samples[r])
          /\ gather_buf[r] # NoPair =>
                /\ gather_buf[r][2] = my_samples[r]
                /\ 0 <= gather_buf[r][1]
                /\ gather_buf[r][1] <= gather_buf[r][2]
    /\ report.kind = "results" =>
          /\ 0 <= report.total_points_in_circle_overall
          /\ report.total_points_in_circle_overall <= report.total_samples_overall

C20_Witness ==
    /\ size = 2 /\ AllReturned
    /\ pool_used[0] /\ ~pool_failed[0] /\ my_samples[0] = 2
    /\ ~pool_used[1] /\ serial_calls[1] = << 1 >> /\ my_samples[1] = 1
    /\ gather_buf[0] = << 2, 2 >> /\ gather_buf[1] = << 0, 1 >>
    /\ report.kind = "results"
    /\ report.total_points_in_circle_overall = 2
    /\ report.total_samples_overall = 3

\* rank q is through start_node_logger_if_leader: elected or not, and if
\* elected its launch has been tried
ElectionDone(q) ==
    /\ pc[q] \notin {"start", "Barrier1", "allgather",
                      "raised_in_startup", "raised_before_launch",
                      "raised_in_launch"}
    /\ enable_multi_node_logging =>
          /\ allgather_buf[q] = << q, hostname[q] >>
          /\ is_node_leader[q] = (q = MinOf(RanksOn(hostname[q])))
          /\ (is_node_leader[q] => launch_attempted[q])

\* C21: when a rank is past the second barrier, with its share computed and
\* its pool or serial work possibly begun, every rank is through the election
\* and every leader has tried its launch.
C21_LaunchesBeforeWork ==
    \A r \in Ranks :
        ShareComputed(r) => \A q \in Ranks : ElectionDone(q)

C21_Witness ==
    /\ size = 2 /\ enable_multi_node_logging
    /\ hostname[0] # hostname[1]
    /\ pc[0] = "Barrier3" /\ serial_calls[0] = << 1 >> /\ pc[1] = "Barrier2"
    /\ launch_attempted[0] /\ logger_process_object[0] = None
    /\ launch_attempted[1] /\ logger_process_object[1] = "Popen"

\* rank r is past pool.map on the pool path and the pool has not failed
PoolMapDone(r) ==
    /\ pool_used[r] /\ ~pool_failed[r]
    /\ pc[r] \in {"close", "Barrier3", "gather", "returned",
                  "raised_after_work", "raised_in_report"}

\* C22: a rank on the pool path that has left pool.map, entered the third
\* barrier or sent its pair has a result for every batch it dispatched, and
\* what it counted and sent is the sum of those results; none is outstanding.
C22_AllBatchesCounted ==
    \A r \in Ranks :
        PoolMapDone(r) =>
            /\ batches_for_pool[r] = BatchesForPool(my_samples[r], mp_batch_size)
            /\ Len(results_from_pool[r]) = Len(batches_for_pool[r])
            /\ \A i \in 1 .. Len(batches_for_pool[r]) :
                  results_from_pool[r][i] \in 0 .. batches_for_pool[r][i]
            /\ rank_local_points_in_circle[r] = SumSeq(results_from_pool[r])
            /\ gather_buf[r] # NoPair =>
                  gather_buf[r] = << SumSeq(results_from_pool[r]), my_samples[r] >>

C22_Witness ==
    \E r \in Ranks :
        /\ PoolMapDone(r) /\ pc[r] = "returned"
        /\ batches_for_pool[r] = << 2, 1 >>
        /\ results_from_pool[r] = << 1, 1 >>
        /\ gather_buf[r] = << 2, 3 >>

\* C24 as stated: with logging enabled, when a leader has tried its launch
\* rank 0 has created the output directory.
C24_DirectoryCreatedBeforeLaunch ==
    \A r \in Ranks :
        (launch_attempted[r] \/ agent[r] # "none") => dir_created

\* C24: with logging enabled, when a leader tries its launch, and for every
\* rank past the first barrier, rank 0 is through its directory step: the
\* directory that --job-output-dir names has been created (with an empty
\* --job-output-dir there is none to create).
C24_DirectoryBeforeLaunch ==
    \A r \in Ranks :
        /\ (launch_attempted[r] \/ agent[r] # "none") =>
              /\ pc[0] # "start"
              /\ (MakedirsDue => dir_created)
        /\ (enable_multi_node_logging
              /\ pc[r] \notin {"start", "Barrier1", "raised_in_startup"}) =>
              /\ pc[0] # "start"
              /\ (MakedirsDue => dir_created)
        /\ (dir_created => MakedirsDue /\ pc[0] # "start")

C24_Witness ==
    /\ size = 2 /\ hostname[0] # hostname[1]
    /\ job_output_dir = "job_out" /\ dir_created
    /\ launch_attempted[1] /\ agent[1] = "running"
    /\ pc[0] = "allgather" /\ ~launch_attempted[0]

\* C25: rank 0's share is 0 only when total_samples is 0 and every share is 0;
\* so when the root reports that no samples were processed, every pair it
\* gathered is (0, 0) and aggregating them would have given 0 of 0.
C25_RootZeroMeansAllZero ==
    /\ (ShareComputed(0) /\ my_samples[0] = 0) =>
          /\ total_samples = 0
          /\ \A q \in Ranks : ShareComputed(q) => my_samples[q] = 0
    /\ report.kind = "no_samples" =>
          /\ my_samples[0] = 0
          /\ \A q \in Ranks :
                gather_buf[q] = << 0, 0 >> /\ rank_local_points_in_circle[q] = 0
          /\ Aggregate(AllRankResults).total_samples_overall = 0
          /\ Aggregate(AllRankResults).total_points_in_circle_overall = 0

C25_Witness ==
    /\ size = 2
    /\ pc[0] = "returned" /\ my_samples[0] = 0
    /\ report = NoSamplesReport
    /\ gather_buf[1] = << 0, 0 >>

\* the hook of rank r has made its SIGINT killpg call on the agent's group
SigintCalled(r) ==
    /\ Len(signals[r]) >= 1
    /\ signals[r][1][1] = "SIGINT" /\ signals[r][1][2] = "pgid_of_logger"

\* the supervisor of rank r is in Stopped: the hook is over, handle cleared
Stopped(r) == HookOver(r) /\ logger_process_object[r] = None

\* C23 as stated, on the runs that have come to their end: when every rank has
\* returned from main and no hook has a step left, every agent that was
\* launched has had the SIGINT call made on its group and its supervisor is
\* Stopped, whichever way its leader left main.
C23_LaunchedAgentsAreStopped ==
    (AllReturned /\ ~ENABLED Next) =>
        \A r \in Ranks : agent[r] # "none" => SigintCalled(r) /\ Stopped(r)

====
